---------------------------- MODULE Spec2Model ----------------------------
(***************************************************************************)
(* Model of model.py: the MobileNet pose-estimation network                *)
(* (PoseEstimationWithMobileNet and the blocks it is built from).          *)
(*                                                                         *)
(* A tensor is abstracted to its shape [b, c, h, w] and one value v, an    *)
(* integer modulo ValueModulus read as a signed number (the upper half of  *)
(* the range is negative).  Module containers (nn.Sequential) are          *)
(* sequences of layer records; a Python index i is position i + 1.         *)
(***************************************************************************)
EXTENDS Integers, Sequences, FiniteSets, TLC

(* ------------------------------ bounds -------------------------------- *)

\* Forward invocations started over one behaviour.
MaxCalls == 2

\* Distinct parameter blobs load_state_dict can install (0 .. MaxParams).
MaxParams == 1

\* Tensor values are integers modulo this.
ValueModulus == 11

(* ------------------------- program constants -------------------------- *)

DefaultNumChannels == 128

DefaultNumHeatmaps == 19

DefaultNumPafs == 38

BackboneOutChannels == 512

HeadWidth == 512

(* ------------------------------ layers -------------------------------- *)

\* nn.Conv2d(in, out, kernel_size, stride, padding, dilation, groups, bias)
Conv2d(in, out, k, s, p, d, g, bias) ==
    [type |-> "Conv2d", in |-> in, out |-> out, k |-> k, s |-> s, p |-> p,
     d |-> d, g |-> g, bias |-> bias]

\* nn.BatchNorm2d(n)
BatchNorm2d(n) ==
    [type |-> "BatchNorm2d", in |-> n, out |-> n, k |-> 1, s |-> 1, p |-> 0,
     d |-> 1, g |-> 1, bias |-> TRUE]

\* nn.ReLU(inplace=True)
ReLU ==
    [type |-> "ReLU", in |-> 0, out |-> 0, k |-> 1, s |-> 1, p |-> 0,
     d |-> 1, g |-> 1, bias |-> FALSE]

\* nn.ELU(inplace=True)
ELU ==
    [type |-> "ELU", in |-> 0, out |-> 0, k |-> 1, s |-> 1, p |-> 0,
     d |-> 1, g |-> 1, bias |-> FALSE]

\* conv(in_channels, out_channels, kernel_size, padding, bn, dilation,
\*      stride, relu, bias): the call sites pass the defaults explicitly.
conv(in, out, k, p, bn, d, s, relu, bias) ==
    <<Conv2d(in, out, k, s, p, d, 1, bias)>>
        \o (IF bn THEN <<BatchNorm2d(out)>> ELSE <<>>)
        \o (IF relu THEN <<ReLU>> ELSE <<>>)

\* conv_dw(in_channels, out_channels, kernel_size, padding, stride, dilation)
conv_dw(in, out, k, p, s, d) ==
    <<Conv2d(in, in, k, s, p, d, in, FALSE), BatchNorm2d(in), ReLU,
      Conv2d(in, out, 1, 1, 0, 1, 1, FALSE), BatchNorm2d(out), ReLU>>

\* conv_dw_no_bn(in_channels, out_channels, kernel_size, padding, stride, dilation)
conv_dw_no_bn(in, out, k, p, s, d) ==
    <<Conv2d(in, in, k, s, p, d, in, FALSE), ELU,
      Conv2d(in, out, 1, 1, 0, 1, 1, FALSE), ELU>>

(* --------------------------- construction ----------------------------- *)

\* Cpm.__init__
Cpm(in, out) ==
    [align |-> conv(in, out, 1, 0, FALSE, 1, 1, TRUE, TRUE),
     trunk |-> <<conv_dw_no_bn(out, out, 3, 1, 1, 1),
                 conv_dw_no_bn(out, out, 3, 1, 1, 1),
                 conv_dw_no_bn(out, out, 3, 1, 1, 1)>>,
     conv  |-> conv(out, out, 3, 1, FALSE, 1, 1, TRUE, TRUE)]

\* InitialStage.__init__
InitialStage(num_channels, num_heatmaps, num_pafs) ==
    [trunk    |-> <<conv(num_channels, num_channels, 3, 1, FALSE, 1, 1, TRUE, TRUE),
                    conv(num_channels, num_channels, 3, 1, FALSE, 1, 1, TRUE, TRUE),
                    conv(num_channels, num_channels, 3, 1, FALSE, 1, 1, TRUE, TRUE)>>,
     heatmaps |-> <<conv(num_channels, HeadWidth, 1, 0, FALSE, 1, 1, TRUE, TRUE),
                    conv(HeadWidth, num_heatmaps, 1, 0, FALSE, 1, 1, FALSE, TRUE)>>,
     pafs     |-> <<conv(num_channels, HeadWidth, 1, 0, FALSE, 1, 1, TRUE, TRUE),
                    conv(HeadWidth, num_pafs, 1, 0, FALSE, 1, 1, FALSE, TRUE)>>]

\* RefinementStageBlock.__init__
RefinementStageBlock(in, out) ==
    [initial |-> conv(in, out, 1, 0, FALSE, 1, 1, TRUE, TRUE),
     trunk   |-> <<conv(out, out, 3, 1, TRUE, 1, 1, TRUE, TRUE),
                   conv(out, out, 3, 2, TRUE, 2, 1, TRUE, TRUE)>>]

\* RefinementStage.__init__
RefinementStage(in, out, num_heatmaps, num_pafs) ==
    [trunk    |-> <<RefinementStageBlock(in, out),
                    RefinementStageBlock(out, out),
                    RefinementStageBlock(out, out),
                    RefinementStageBlock(out, out),
                    RefinementStageBlock(out, out)>>,
     heatmaps |-> <<conv(out, out, 1, 0, FALSE, 1, 1, TRUE, TRUE),
                    conv(out, num_heatmaps, 1, 0, FALSE, 1, 1, FALSE, TRUE)>>,
     pafs     |-> <<conv(out, out, 1, 0, FALSE, 1, 1, TRUE, TRUE),
                    conv(out, num_pafs, 1, 0, FALSE, 1, 1, FALSE, TRUE)>>]

\* self.model of PoseEstimationWithMobileNet.__init__
Backbone ==
    <<conv(3, 32, 3, 1, TRUE, 1, 2, TRUE, FALSE),
      conv_dw(32, 64, 3, 1, 1, 1),
      conv_dw(64, 128, 3, 1, 2, 1),
      conv_dw(128, 128, 3, 1, 1, 1),
      conv_dw(128, 256, 3, 1, 2, 1),
      conv_dw(256, 256, 3, 1, 1, 1),
      conv_dw(256, 512, 3, 1, 1, 1),
      conv_dw(512, 512, 3, 2, 1, 2),
      conv_dw(512, 512, 3, 1, 1, 1),
      conv_dw(512, 512, 3, 1, 1, 1),
      conv_dw(512, 512, 3, 1, 1, 1),
      conv_dw(512, 512, 3, 1, 1, 1)>>

\* a stage sized for the features and the heatmaps alone
RefinementInChannelsWithoutPafs(num_channels, num_heatmaps, num_pafs) ==
    num_channels + num_heatmaps

\* The in_channels argument the constructor gives every RefinementStage.
RefinementInChannels(num_channels, num_heatmaps, num_pafs) ==
    num_channels + num_heatmaps + num_pafs

\* The positions range(n) runs through: n of them, none when n <= 0.
Range(n) == 1..(IF n > 0 THEN n ELSE 0)

\* PoseEstimationWithMobileNet.__init__: it checks none of its arguments, and
\* the loop over range(num_refinement_stages) appends one stage per turn.
PoseEstimationWithMobileNet(num_refinement_stages, num_channels, num_heatmaps, num_pafs) ==
    [model             |-> Backbone,
     cpm               |-> Cpm(BackboneOutChannels, num_channels),
     initial_stage     |-> InitialStage(num_channels, num_heatmaps, num_pafs),
     refinement_stages |->
        [idx \in Range(num_refinement_stages) |->
            RefinementStage(
                RefinementInChannels(num_channels, num_heatmaps, num_pafs),
                num_channels, num_heatmaps, num_pafs)]]


\* Python's seq[i] on a container.
At(seq, i) == seq[i + 1]

RECURSIVE Flatten(_)
\* The members of a container of containers, in construction order.
Flatten(seqs) ==
    IF seqs = <<>> THEN <<>> ELSE Head(seqs) \o Flatten(Tail(seqs))

\* Every layer of a RefinementStageBlock, in construction order.
BlockLayers(blk) == blk.initial \o Flatten(blk.trunk)

\* Every layer of a RefinementStage, in construction order.
StageLayers(st) ==
    Flatten([k \in 1..Len(st.trunk) |-> BlockLayers(st.trunk[k])])
        \o Flatten(st.heatmaps) \o Flatten(st.pafs)

\* Every layer of a network, in construction order.
NetLayers(network) ==
    Flatten(network.model)
        \o network.cpm.align \o Flatten(network.cpm.trunk) \o network.cpm.conv
        \o Flatten(network.initial_stage.trunk)
        \o Flatten(network.initial_stage.heatmaps)
        \o Flatten(network.initial_stage.pafs)
        \o Flatten([k \in 1..Len(network.refinement_stages) |->
                        StageLayers(network.refinement_stages[k])])

\* What the layer constructors raise: nn.Conv2d rejects groups <= 0 and channel
\* counts that groups does not divide (ValueError), and allocating a weight with
\* a negative dimension fails (RuntimeError); a channel count of 0 is accepted.
LayerCtorError(m) ==
    IF m.type = "Conv2d" THEN
        IF m.g <= 0 THEN "ValueError"
        ELSE IF m.in % m.g # 0 \/ m.out % m.g # 0 THEN "ValueError"
        ELSE IF m.in < 0 \/ m.out < 0 THEN "RuntimeError"
        ELSE "none"
    ELSE IF m.type = "BatchNorm2d" /\ m.in < 0 THEN "RuntimeError"
    ELSE "none"

\* The exception PoseEstimationWithMobileNet.__init__ ends with ("none": it
\* returns the network).  The constructor itself checks nothing; the only
\* failures are those of the layer constructors it calls.
CtorError(n, num_channels, num_heatmaps, num_pafs) ==
    LET layers == NetLayers(PoseEstimationWithMobileNet(n, num_channels, num_heatmaps, num_pafs))
        bad    == {k \in 1..Len(layers) : LayerCtorError(layers[k]) # "none"}
    IN  IF bad = {} THEN "none"
        ELSE LayerCtorError(layers[CHOOSE k \in bad : \A j \in bad : k <= j])

(* ------------------------- tensors and layers ------------------------- *)

Tensor(b, c, h, w, v) == [b |-> b, c |-> c, h |-> h, w |-> w, v |-> v]

NoTensor == Tensor(0, 0, 0, 0, 0)

\* The parameter groups of a network (its direct children).
Groups == {"model", "cpm", "initial_stage", "refinement_stages"}

GroupId(grp) ==
    CASE grp = "model" -> 1
      [] grp = "cpm" -> 2
      [] grp = "initial_stage" -> 3
      [] OTHER -> 4

\* The weight a convolution reads: fixed by the installed parameters and by where
\* the layer sits (group grp, position key).
Weight(blob, grp, key) ==
    1 + ((blob + 5 * GroupId(grp) + key) % (ValueModulus - 1))

\* Spatial size after a convolution: floor((n + 2p - d(k-1) - 1) / s) + 1.
OutSize(n, m) == ((n + 2 * m.p - m.d * (m.k - 1) - 1) \div m.s) + 1

\* The result of running a layer or block: the exception raised ("none": it
\* returned t), the groups whose weights were read, the groups whose batch-norm
\* statistics were written, and the targets xavier_uniform_ re-initialised.
Result(exc, t, rd, bnw, reinit) ==
    [exc |-> exc, t |-> t, rd |-> rd, bnw |-> bnw, reinit |-> reinit]

Returned(t) == Result("none", t, {}, {}, {})

\* a step's result after the effects of what ran before it
After(prev, r) ==
    [r EXCEPT !.rd = prev.rd \cup @, !.bnw = prev.bnw \cup @,
              !.reinit = prev.reinit \cup @]

\* nn.Conv2d.forward: a channel mismatch or an empty output is a RuntimeError.
Conv2dForward(m, x, e, grp, key) ==
    LET h == OutSize(x.h, m)
        w == OutSize(x.w, m)
    IN  IF x.c # m.in \/ h < 1 \/ w < 1
        THEN Result("RuntimeError", NoTensor, {}, {}, {})
        ELSE Result("none",
                    Tensor(x.b, m.out, h, w,
                           (Weight(e.params, grp, key) * x.v
                                + (IF m.bias THEN 1 ELSE 0)) % ValueModulus),
                    {grp}, {}, {})

\* nn.BatchNorm2d.forward.  In training mode the batch statistics (a function of
\* the input alone) normalise the input and the running statistics are updated;
\* one value per channel is then a ValueError.  In inference mode the running
\* statistics are read and nothing is written.
BatchNorm2dForward(m, x, e, grp) ==
    IF x.c # m.in THEN Result("RuntimeError", NoTensor, {}, {}, {})
    ELSE IF e.training /\ x.b * x.h * x.w = 1
    THEN Result("ValueError", NoTensor, {}, {}, {})
    ELSE IF e.training
    THEN Result("none", [x EXCEPT !.v = (2 * x.v) % ValueModulus], {grp}, {grp}, {})
    ELSE Result("none", [x EXCEPT !.v = (x.v + e.bn[grp]) % ValueModulus], {grp}, {}, {})

\* nn.ReLU: negative values become 0.
ReLUForward(x) ==
    Returned([x EXCEPT !.v = IF x.v > ValueModulus \div 2 THEN 0 ELSE x.v])

\* nn.ELU: negative values saturate at -1.
ELUForward(x) ==
    Returned([x EXCEPT !.v = IF x.v > ValueModulus \div 2 THEN ValueModulus - 1 ELSE x.v])

LayerForward(m, x, e, grp, key) ==
    CASE m.type = "Conv2d" -> Conv2dForward(m, x, e, grp, key)
      [] m.type = "BatchNorm2d" -> BatchNorm2dForward(m, x, e, grp)
      [] m.type = "ReLU" -> ReLUForward(x)
      [] OTHER -> ELUForward(x)

\* the element of a one-element set
Only(S) == CHOOSE v \in S : TRUE

\* The next step of a function body: r is what ran so far.  When r raised, the
\* exception goes on up; otherwise Rest runs on the value r returned.
Then(r, Rest(_)) ==
    Only({IF ran.exc # "none" THEN ran ELSE After(ran, Rest(ran.t)) : ran \in {r}})

RECURSIVE SequentialFrom(_, _, _, _, _, _)
SequentialFrom(mods, i, x, e, grp, key) ==
    IF i > Len(mods) THEN Returned(x)
    ELSE Then(LayerForward(mods[i], x, e, grp, key + i),
              LAMBDA y : SequentialFrom(mods, i + 1, y, e, grp, key))

\* nn.Sequential.forward over layers: each in turn, an exception ending it.
SequentialForward(mods, x, e, grp, key) ==
    SequentialFrom(mods, 1, x, e, grp, key)

RECURSIVE ChainFrom(_, _, _, _, _, _)
ChainFrom(seqs, i, x, e, grp, key) ==
    IF i > Len(seqs) THEN Returned(x)
    ELSE Then(SequentialForward(seqs[i], x, e, grp, key + 7 * i),
              LAMBDA y : ChainFrom(seqs, i + 1, y, e, grp, key))

\* nn.Sequential.forward over a container of conv(...) blocks.
ChainForward(seqs, x, e, grp, key) ==
    ChainFrom(seqs, 1, x, e, grp, key)

\* a + b element-wise: the shapes must agree.
Add(a, b) ==
    IF <<a.b, a.c, a.h, a.w>> # <<b.b, b.c, b.h, b.w>>
    THEN Result("RuntimeError", NoTensor, {}, {}, {})
    ELSE Returned([a EXCEPT !.v = (a.v + b.v) % ValueModulus])

\* torch.cat([a, b, c], dim=1): the channels add up, the other sizes must agree.
Cat(a, b, c) ==
    IF <<a.b, a.h, a.w>> # <<b.b, b.h, b.w>> \/ <<a.b, a.h, a.w>> # <<c.b, c.h, c.w>>
    THEN Result("RuntimeError", NoTensor, {}, {}, {})
    ELSE Returned(Tensor(a.b, a.c + b.c + c.c, a.h, a.w,
                         (a.v + 3 * b.v + 5 * c.v) % ValueModulus))

(* ------------------------- re-initialisation -------------------------- *)

\* an initialiser that takes the module and re-draws its weight
xavier_uniform_on_module(kind) == "none"

\* torch.nn.init.xavier_uniform_(obj) begins by asking obj.dim() for the fan-in
\* and fan-out.  Only a tensor has dim(); given an nn.Module (a layer or a
\* container) the attribute lookup raises AttributeError and nothing is written.
xavier_uniform_(kind) ==
    IF kind = "Tensor" THEN "none" ELSE "AttributeError"

\* One xavier_uniform_ call of the source: the object it names (container path
\* and Python indices, -1 where there is none) and what kind of object that is.
Target(grp, path, i, j, kind) ==
    [grp |-> grp, path |-> path, i |-> i, j |-> j, kind |-> kind]

\* What self.<container> is when it was built by conv(...), conv_dw(...) or
\* nn.Sequential(...).
ContainerKind == "Sequential"

RECURSIVE XavierFrom(_, _, _, _)
XavierFrom(stmts, k, done, t) ==
    IF k > Len(stmts) THEN Result("none", t, {}, {}, done)
    ELSE IF xavier_uniform_(stmts[k].kind) # "none"
    THEN Result(xavier_uniform_(stmts[k].kind), NoTensor, {}, {}, done)
    ELSE XavierFrom(stmts, k + 1, done \cup {stmts[k]}, t)

\* A run of xavier_uniform_ statements: the first one that raises ends it; t is
\* the value the function returns after them.
XavierAll(stmts, t) == XavierFrom(stmts, 1, {}, t)

(* ----------------------------- Cpm.forward ---------------------------- *)

CpmReinit(cpm) ==
    <<Target("cpm", "align", -1, -1, ContainerKind),
      Target("cpm", "trunk", 0, -1, ContainerKind),
      Target("cpm", "trunk", 1, -1, ContainerKind),
      Target("cpm", "trunk", 2, -1, ContainerKind),
      Target("cpm", "conv", -1, -1, ContainerKind)>>

\* x = self.align(x); x = self.conv(x + self.trunk(x)); the five
\* xavier_uniform_ statements; return x
CpmForward(cpm, x, e) ==
    Then(SequentialForward(cpm.align, x, e, "cpm", 0), LAMBDA a :
    Then(ChainForward(cpm.trunk, a, e, "cpm", 10), LAMBDA t :
    Then(Add(a, t), LAMBDA sum :
    Then(SequentialForward(cpm.conv, sum, e, "cpm", 40), LAMBDA c :
    XavierAll(CpmReinit(cpm), c)))))

(* ------------------------- InitialStage.forward ----------------------- *)

InitialStageReinit(st) ==
    <<Target("initial_stage", "trunk", 0, 0, At(At(st.trunk, 0), 0).type),
      Target("initial_stage", "trunk", 1, 0, At(At(st.trunk, 1), 0).type),
      Target("initial_stage", "trunk", 2, 0, At(At(st.trunk, 2), 0).type),
      Target("initial_stage", "heatmaps", 0, 0, At(At(st.heatmaps, 0), 0).type),
      Target("initial_stage", "heatmaps", 1, 0, At(At(st.heatmaps, 1), 0).type),
      Target("initial_stage", "pafs", 0, 0, At(At(st.pafs, 0), 0).type),
      Target("initial_stage", "pafs", 1, 0, At(At(st.pafs, 1), 0).type)>>

\* returns the list [heatmaps, pafs]
InitialStageForward(st, x, e) ==
    Then(ChainForward(st.trunk, x, e, "initial_stage", 0), LAMBDA trunk_features :
    Then(ChainForward(st.heatmaps, trunk_features, e, "initial_stage", 30), LAMBDA heatmaps :
    Then(ChainForward(st.pafs, trunk_features, e, "initial_stage", 50), LAMBDA pafs :
    XavierAll(InitialStageReinit(st), <<heatmaps, pafs>>))))

(* --------------------- RefinementStageBlock.forward ------------------- *)

BlockReinit(blk) ==
    <<Target("refinement_stages", "initial", -1, -1, ContainerKind),
      Target("refinement_stages", "trunk", 0, 0, At(At(blk.trunk, 0), 0).type),
      Target("refinement_stages", "trunk", 1, 0, At(At(blk.trunk, 1), 0).type)>>

\* the sum is formed by the return statement, after the xavier_uniform_ ones
RefinementStageBlockForward(blk, x, e, key) ==
    Then(SequentialForward(blk.initial, x, e, "refinement_stages", key),
         LAMBDA initial_features :
    Then(ChainForward(blk.trunk, initial_features, e, "refinement_stages", key + 3),
         LAMBDA trunk_features :
    Then(XavierAll(BlockReinit(blk), NoTensor), LAMBDA none :
    Add(initial_features, trunk_features))))

(* ------------------------ RefinementStage.forward --------------------- *)

RECURSIVE BlocksFrom(_, _, _, _, _)
\* self.trunk(x): the five blocks in turn
BlocksFrom(blocks, i, x, e, key) ==
    IF i > Len(blocks) THEN Returned(x)
    ELSE Then(RefinementStageBlockForward(blocks[i], x, e, key + 20 * i),
              LAMBDA y : BlocksFrom(blocks, i + 1, y, e, key))

\* returns the list [heatmaps, pafs]
RefinementStageForward(st, x, e, key) ==
    Then(BlocksFrom(st.trunk, 1, x, e, key), LAMBDA trunk_features :
    Then(ChainForward(st.heatmaps, trunk_features, e, "refinement_stages", key + 1),
         LAMBDA heatmaps :
    Then(ChainForward(st.pafs, trunk_features, e, "refinement_stages", key + 2),
         LAMBDA pafs :
    Returned(<<heatmaps, pafs>>))))

(* ------------------ PoseEstimationWithMobileNet.forward --------------- *)

\* The (block, sub-layer) index pairs of self.model that the forward pass hands
\* to xavier_uniform_, in statement order.
BackboneReinitIndices ==
    <<<<0, 0>>,
      <<1, 0>>, <<1, 3>>, <<2, 0>>, <<2, 3>>, <<3, 0>>, <<3, 3>>,
      <<4, 0>>, <<4, 3>>, <<5, 0>>, <<5, 3>>, <<6, 0>>, <<6, 3>>,
      <<7, 0>>, <<7, 3>>, <<8, 0>>, <<8, 3>>, <<9, 0>>, <<9, 3>>,
      <<10, 0>>, <<10, 3>>>>

BackboneReinit(model) ==
    [k \in 1..Len(BackboneReinitIndices) |->
        LET ij == BackboneReinitIndices[k]
        IN  Target("model", "model", ij[1], ij[2], At(At(model, ij[1]), ij[2]).type)]

\* backbone_features = self.model(x)
ModelForward(model, x, e) == ChainForward(model, x, e, "model", 0)

RECURSIVE RefinementLoop(_, _, _, _, _)
\* for refinement_stage in self.refinement_stages: stages_output.extend(
\*     refinement_stage(torch.cat([backbone_features, stages_output[-2],
\*                                 stages_output[-1]], dim=1)))
RefinementLoop(stages, k, backbone_features, stages_output, e) ==
    IF k > Len(stages) THEN Returned(stages_output)
    ELSE Then(Cat(backbone_features,
                  stages_output[Len(stages_output) - 1],
                  stages_output[Len(stages_output)]), LAMBDA stage_input :
         Then(RefinementStageForward(stages[k], stage_input, e, 100 * k), LAMBDA pair :
         RefinementLoop(stages, k + 1, backbone_features, stages_output \o pair, e)))

\* The forward pass from backbone_features = self.cpm(backbone_features) to the
\* return of stages_output.
ForwardTail(network, x, e) ==
    Then(CpmForward(network.cpm, x, e), LAMBDA backbone_features :
    Then(InitialStageForward(network.initial_stage, backbone_features, e),
         LAMBDA stages_output :
    Then(RefinementLoop(network.refinement_stages, 1, backbone_features, stages_output, e),
         LAMBDA outputs :
    XavierAll(BackboneReinit(network.model), outputs))))

(* ------------------------------- state -------------------------------- *)

VARIABLES
    built,      \* the latest PoseEstimationWithMobileNet(...) returned a network
    cfg,        \* the arguments of the latest constructor call
    ctorExc,    \* the exception the latest constructor call ended with
    constructed,\* the driver's constructor call (net = ...) has been made
    training,   \* nn.Module.training of the network
    params,     \* the parameter values the network holds (a blob id)
    running,    \* per group: updates of the batch-norm running statistics
    inv,        \* the forward invocations, one per caller
    calls       \* invocations started so far

vars == <<built, cfg, ctorExc, constructed, training, params, running, inv, calls>>

Callers == {1, 2}

StageCounts == -1..3

Hypers ==
    {<<DefaultNumChannels, DefaultNumHeatmaps, DefaultNumPafs>>,
     <<4, 2, 3>>,
     <<DefaultNumChannels, 0, DefaultNumPafs>>,
     <<DefaultNumChannels, DefaultNumHeatmaps, -1>>}

Config(n, h) ==
    [num_refinement_stages |-> n, num_channels |-> h[1],
     num_heatmaps |-> h[2], num_pafs |-> h[3]]

NoConfig == Config(0, <<0, 0, 0>>)

\* The argument lists tried: every stage count with the usable hyper-parameters,
\* and the non-positive head counts with one stage.
Configs ==
    {Config(n, h) : n \in StageCounts, h \in {hh \in Hypers : hh[2] > 0 /\ hh[3] > 0}}
        \cup {Config(1, h) : h \in Hypers}

\* the entry of key k in a table of <<key, value>> pairs
Lookup(table, k) == (CHOOSE entry \in table : entry[1] = k)[2]

\* What the constructor builds from each argument list tried.
Constructed ==
    {<<c, PoseEstimationWithMobileNet(c.num_refinement_stages, c.num_channels,
                                      c.num_heatmaps, c.num_pafs)>> : c \in Configs}

NoNet ==
    [model |-> <<>>, cpm |-> [align |-> <<>>, trunk |-> <<>>, conv |-> <<>>],
     initial_stage |-> [trunk |-> <<>>, heatmaps |-> <<>>, pafs |-> <<>>],
     refinement_stages |-> <<>>]

\* The modules of the network.  No statement of the source adds, removes or
\* replaces a module after construction, so they are those the constructor built
\* from its arguments.
net == IF built THEN Lookup(Constructed, cfg) ELSE NoNet

\* what a caller can invoke: the network or one of its sub-modules
Targets == {"net", "initial_stage", "block"}

\* Images handed to the network, their sides divisible by 8; the last leaves one
\* value per channel at 1/8 resolution.
Images ==
    {Tensor(2, 3, 368, 368, 1), Tensor(1, 3, 16, 24, 2), Tensor(1, 3, 8, 8, 1)}

\* Inputs for a direct call of a sub-module: a feature map with the channel
\* count its first layer is configured for.
InputsOf(target) ==
    CASE target = "net" -> Images
      [] target = "initial_stage" ->
            {Tensor(1, At(At(net.initial_stage.trunk, 0), 0).in, 2, 3, 1)}
      [] OTHER ->
            {Tensor(1, At(At(net.refinement_stages, 0).trunk[1].initial, 0).in, 2, 3, 2)}

Exists(target) ==
    built /\ (target = "block" => Len(net.refinement_stages) >= 1)

Idle ==
    [pc |-> "idle", target |-> "net", x |-> NoTensor, feat |-> NoTensor,
     exc |-> "none", outs |-> <<>>, rd |-> {}, wr |-> {}, reinit |-> {},
     params |-> 0, alone |-> TRUE, sawTraining |-> FALSE]

Active(i) == inv[i].pc \in {"model", "tail", "run"}

Env == [params |-> params, training |-> training, bn |-> running]

Init ==
    /\ built = FALSE
    /\ cfg = NoConfig
    /\ ctorExc = "none"
    /\ constructed = FALSE
    /\ training = TRUE
    /\ params = 0
    /\ running = [g \in Groups |-> 0]
    /\ inv = [i \in Callers |-> Idle]
    /\ calls = 0

(* ------------------------------ actions ------------------------------- *)

\* net = PoseEstimationWithMobileNet(n, num_channels, num_heatmaps, num_pafs):
\* a new module is in training mode, with freshly drawn parameters.
Construct(n, h) ==
    /\ Config(n, h) \in Configs
    /\ ~constructed
    /\ \A i \in Callers : ~Active(i)
    /\ constructed' = TRUE
    /\ cfg' = Config(n, h)
    /\ ctorExc' = CtorError(n, h[1], h[2], h[3])
    /\ built' = (ctorExc' = "none")
    /\ training' = TRUE
    /\ \E p \in 0..MaxParams : params' = p
    /\ running' = [g \in Groups |-> 0]
    /\ UNCHANGED <<inv, calls>>

\* model.eval(), which the driver calls before it runs the network
Eval ==
    /\ built
    /\ training
    /\ \A i \in Callers : ~Active(i)
    /\ training' = FALSE
    /\ UNCHANGED <<built, cfg, ctorExc, constructed, params, running, inv, calls>>

\* model.load_state_dict(...): an external change of the parameter values,
\* made by the driver before it runs the network
LoadStateDict(p) ==
    /\ built
    /\ p # params
    /\ \A i \in Callers : ~Active(i)
    /\ params' = p
    /\ UNCHANGED <<built, cfg, ctorExc, constructed, training, running, inv, calls>>

\* a caller invokes the network, or a sub-module of it, on some input x
Call(i, target) ==
    /\ Exists(target)
    /\ ~Active(i)
    /\ calls < MaxCalls
    /\ calls' = calls + 1
    /\ \E x \in InputsOf(target) :
           inv' = [inv EXCEPT ![i] =
                    [Idle EXCEPT !.pc = IF target = "net" THEN "model" ELSE "run",
                                 !.target = target, !.x = x,
                                 !.params = params,
                                 !.alone = \A j \in Callers : ~Active(j)]]
    /\ UNCHANGED <<built, cfg, ctorExc, constructed, training, params, running>>

\* The state after a step with result r: the running statistics it wrote, and
\* the parameters re-drawn when a xavier_uniform_ call went through.
Effects(i, r, pc, feat, outs) ==
    /\ running' = [g \in Groups |-> IF g \in r.bnw THEN running[g] + 1 ELSE running[g]]
    /\ \E p \in 0..MaxParams :
           params' = IF r.reinit = {} THEN params ELSE p
    /\ inv' = [inv EXCEPT ![i] =
                [@ EXCEPT !.pc = pc, !.feat = feat, !.exc = r.exc, !.outs = outs,
                          !.rd = @ \cup r.rd,
                          !.wr = @ \cup {<<g, "bn">> : g \in r.bnw}
                                   \cup {<<c.grp, "weight">> : c \in r.reinit},
                          !.reinit = @ \cup r.reinit,
                          !.sawTraining = @ \/ training]]
    /\ UNCHANGED <<built, cfg, ctorExc, constructed, training, calls>>

\* self.model(x) for every image, parameter blob, mode and count of statistics
\* updates: the backbone is the same in every network, so each run is worked
\* out once.
BackboneRuns ==
    {<<<<x, p, tr, k>>,
       ModelForward(Backbone, x,
                    [params |-> p, training |-> tr, bn |-> [g \in Groups |-> k]])>> :
        x \in Images, p \in 0..MaxParams, tr \in BOOLEAN, k \in 0..MaxCalls}

\* PoseEstimationWithMobileNet.forward, first statement:
\* backbone_features = self.model(x)
ForwardModel(i) ==
    /\ inv[i].pc = "model"
    /\ \E r \in {Lookup(BackboneRuns, <<inv[i].x, params, training, running["model"]>>)} :
           IF r.exc = "none"
           THEN Effects(i, r, "tail", r.t, <<>>)
           ELSE Effects(i, r, "done", NoTensor, <<>>)

\* PoseEstimationWithMobileNet.forward, the rest: the call ends with the
\* exception raised or with stages_output returned.
ForwardRest(i) ==
    /\ inv[i].pc = "tail"
    /\ \E r \in {ForwardTail(net, inv[i].feat, Env)} :
           Effects(i, r, "done", NoTensor, IF r.exc = "none" THEN r.t ELSE <<>>)

\* The forward of a sub-module called directly.
SubForward(target, x) ==
    CASE target = "initial_stage" -> InitialStageForward(net.initial_stage, x, Env)
      [] OTHER ->
            RefinementStageBlockForward(At(At(net.refinement_stages, 0).trunk, 0), x, Env, 120)

\* InitialStage.forward or RefinementStageBlock.forward called on its own.
ForwardSub(i) ==
    /\ inv[i].pc = "run"
    /\ \E r \in {SubForward(inv[i].target, inv[i].x)} :
           Effects(i, r, "done", NoTensor,
                   IF r.exc # "none" THEN <<>>
                   ELSE IF inv[i].target = "initial_stage" THEN r.t
                   ELSE <<r.t>>)

Next ==
    \/ \E n \in StageCounts, h \in Hypers : Construct(n, h)
    \/ Eval
    \/ \E p \in 0..MaxParams : LoadStateDict(p)
    \/ \E i \in Callers, target \in Targets : Call(i, target)
    \/ \E i \in Callers : ForwardModel(i)
    \/ \E i \in Callers : ForwardRest(i)
    \/ \E i \in Callers : ForwardSub(i)

Spec == Init /\ [][Next]_vars

(* ------------------------------- claims ------------------------------- *)

\* invocation i, of the module target, has ended (returned or raised)
Finished(i, target) == inv[i].pc = "done" /\ inv[i].target = target

\* ... and ran wholly in inference mode, as the driver runs the network
FinishedInference(i, target) == Finished(i, target) /\ ~inv[i].sawTraining

\* C1: every call of PoseEstimationWithMobileNet.forward on a network built with
\* num_refinement_stages >= 0 returns a list of exactly
\* 2 + 2 * num_refinement_stages entries.
C1_OutputListLength ==
    \A i \in Callers :
        FinishedInference(i, "net") /\ cfg.num_refinement_stages >= 0 =>
            /\ inv[i].exc = "none"
            /\ Len(inv[i].outs) = 2 + 2 * cfg.num_refinement_stages

\* C2: the list forward returns ends with the heatmap and then the PAF of the
\* last stage executed: outputs[-2] has num_heatmaps channels and outputs[-1]
\* num_pafs channels, at the resolution of the features.
C2_LastPairIsHeatmapPaf ==
    \A i \in Callers :
        FinishedInference(i, "net") /\ cfg.num_refinement_stages >= 0 =>
            /\ inv[i].exc = "none"
            /\ Len(inv[i].outs) >= 2
            /\ inv[i].outs[Len(inv[i].outs) - 1].c = cfg.num_heatmaps
            /\ inv[i].outs[Len(inv[i].outs)].c = cfg.num_pafs

\* input channels of a refinement stage: those of its first block's 1x1 conv
StageInChannels(st) == At(At(st.trunk, 0).initial, 0).in

\* output channels of a two-conv head
HeadOutChannels(head) == At(At(head, 1), 0).out

\* what line 170 concatenates for stage k: the Cpm features and the heatmaps
\* and PAFs of the stage before (the initial stage before the first)
ConcatenatedFor(k) ==
    LET prev == IF k = 1 THEN net.initial_stage ELSE net.refinement_stages[k - 1]
    IN  Cat(Tensor(1, At(net.cpm.conv, 0).out, 2, 3, 1),
            Tensor(1, HeadOutChannels(prev.heatmaps), 2, 3, 1),
            Tensor(1, HeadOutChannels(prev.pafs), 2, 3, 1)).t

\* C3: every refinement stage of a constructed network is configured for
\* num_channels + num_heatmaps + num_pafs input channels, and that is the channel
\* count of the tensor forward concatenates for it.
C3_StageInputChannels ==
    built =>
        \A k \in 1..Len(net.refinement_stages) :
            /\ StageInChannels(net.refinement_stages[k])
                   = cfg.num_channels + cfg.num_heatmaps + cfg.num_pafs
            /\ StageInChannels(net.refinement_stages[k]) = ConcatenatedFor(k).c

\* C3's case: a network with several refinement stages and hyper-parameters
\* other than the defaults
C3_Witness ==
    /\ built
    /\ Len(net.refinement_stages) >= 2
    /\ cfg.num_channels # DefaultNumChannels
    /\ ConcatenatedFor(2).c = cfg.num_channels + cfg.num_heatmaps + cfg.num_pafs

\* C4: for an input [B, 3, H, W] with H and W divisible by 8, forward returns
\* entries of shape [B, num_heatmaps, H/8, W/8] at even and
\* [B, num_pafs, H/8, W/8] at odd Python indices.
C4_OutputShapes ==
    \A i \in Callers :
        FinishedInference(i, "net") /\ cfg.num_refinement_stages >= 0 =>
            /\ inv[i].exc = "none"
            /\ Len(inv[i].outs) > 0
            /\ \A k \in 1..Len(inv[i].outs) :
                   /\ inv[i].outs[k].b = inv[i].x.b
                   /\ inv[i].outs[k].c =
                          IF k % 2 = 1 THEN cfg.num_heatmaps ELSE cfg.num_pafs
                   /\ inv[i].outs[k].h = inv[i].x.h \div 8
                   /\ inv[i].outs[k].w = inv[i].x.w \div 8

\* C5: two consecutive forward calls on the same network with the same input
\* and the same parameters installed return identical outputs.
C5_RepeatedCallSameOutputs ==
    \A i, j \in Callers :
        /\ i # j
        /\ cfg.num_refinement_stages >= 0
        /\ FinishedInference(i, "net") /\ FinishedInference(j, "net")
        /\ inv[i].alone /\ inv[j].alone
        /\ inv[i].x = inv[j].x
        /\ inv[i].params = inv[j].params
        => /\ inv[i].exc = "none"
           /\ inv[j].exc = "none"
           /\ inv[i].outs = inv[j].outs

\* the parameter tensors invocation i has read
ReadBy(i) == {<<g, "weight">> : g \in inv[i].rd}

\* C6: no invocation writes a parameter that a concurrent invocation reads or
\* writes.
C6_NoWriteRace ==
    \A i, j \in Callers :
        i # j /\ cfg.num_refinement_stages >= 0 /\ Active(i) /\ Active(j) =>
            inv[i].wr \cap (ReadBy(j) \cup inv[j].wr) = {}

\* C6 as amended: an invocation that runs in inference mode writes neither a
\* weight nor a batch-norm statistic.
C6_InferenceWritesNothing ==
    \A i \in Callers :
        ~inv[i].sawTraining => inv[i].wr = {} /\ inv[i].reinit = {}

\* C6's case: two invocations under way together in inference mode, one ended
\* and one past the backbone, both having read parameters
C6_Witness ==
    \E i, j \in Callers :
        /\ i # j
        /\ FinishedInference(i, "net") /\ ~inv[i].alone
        /\ inv[j].pc = "tail" /\ ~inv[j].sawTraining
        /\ ReadBy(i) \cap ReadBy(j) # {}

\* C7: a constructor call with num_refinement_stages < 0, num_heatmaps <= 0 or
\* num_pafs <= 0 ends with InvalidConfiguration and builds no network.
C7_InvalidConfigurationRejected ==
    constructed /\ (cfg.num_refinement_stages < 0 \/ cfg.num_heatmaps <= 0
                        \/ cfg.num_pafs <= 0)
        => ctorExc = "InvalidConfiguration" /\ ~built

\* the environment invocation i, run in inference mode, read its parameters from
EnvOf(i) == [params |-> inv[i].params, training |-> FALSE, bn |-> running]

\* what the network with no refinement stage and the same other arguments
\* returns for the input of invocation i
WithoutRefinement(i) ==
    Then(ModelForward(net.model, inv[i].x, EnvOf(i)), LAMBDA backbone_features :
         ForwardTail(PoseEstimationWithMobileNet(0, cfg.num_channels,
                                                 cfg.num_heatmaps, cfg.num_pafs),
                     backbone_features, EnvOf(i)))

\* C8: for num_refinement_stages in 0..3, outputs[0] and outputs[1] are those of
\* the network built without refinement stages, given the same parameters and
\* the same input.
C8_InitialPairIndependentOfStages ==
    \A i \in Callers :
        FinishedInference(i, "net") /\ cfg.num_refinement_stages \in 0..3 =>
            /\ inv[i].exc = "none"
            /\ Len(inv[i].outs) >= 2
            /\ WithoutRefinement(i).exc = "none"
            /\ SubSeq(inv[i].outs, 1, 2) = WithoutRefinement(i).t

\* initial(x) + trunk(initial(x)) for the block called directly
ResidualSum(i) ==
    LET blk == At(At(net.refinement_stages, 0).trunk, 0)
    IN  Then(SequentialForward(blk.initial, inv[i].x, EnvOf(i), "refinement_stages", 120),
             LAMBDA initial_features :
        Then(ChainForward(blk.trunk, initial_features, EnvOf(i), "refinement_stages", 123),
             LAMBDA trunk_features : Add(initial_features, trunk_features)))

\* C9: RefinementStageBlock.forward returns initial(x) + trunk(initial(x)).
C9_BlockReturnsResidualSum ==
    \A i \in Callers :
        FinishedInference(i, "block") =>
            /\ inv[i].exc = "none"
            /\ ResidualSum(i).exc = "none"
            /\ inv[i].outs = <<ResidualSum(i).t>>

\* the first standalone conv and, of each of the 11 conv_dw blocks of the
\* backbone, the depthwise and the pointwise convolution
BackboneConvs ==
    {Target("model", "model", 0, 0, At(At(net.model, 0), 0).type)}
        \cup {Target("model", "model", b, j, At(At(net.model, b), j).type) :
                  b \in 1..11, j \in {0, 3}}

\* C10: every call of forward re-initialises the first conv of the backbone and
\* both convolutions of each of its 11 depthwise-separable blocks.
C10_BackboneReinitTargets ==
    \A i \in Callers :
        FinishedInference(i, "net") /\ cfg.num_refinement_stages >= 0 =>
            BackboneConvs \subseteq inv[i].reinit
====
